---- MODULE Spec2Model ----
(***************************************************************************)
(* Smart-Education backend: the authentication controller (register,       *)
(* login, getMe, forgotPassword) and the admin controller (createTeacher,  *)
(* deleteUser, updateUserRole) over the shared User collection, and the    *)
(* course controller (createCourse, updateCourse, deleteCourse) over the   *)
(* Course collection and the uploaded files.                               *)
(*                                                                         *)
(* Every handler is an async function: it runs synchronously up to its     *)
(* first await and then from one await to the next.  Each such segment is  *)
(* one action, so that requests interleave exactly where Node.js lets      *)
(* them.  Spec runs one request at a time; SpecConc lets the requests of   *)
(* different clients overlap.  SpecCourse is the course controller one     *)
(* request at a time; SpecRace and SpecReset overlap the account-creating  *)
(* requests and the forgotPassword requests.                               *)
(***************************************************************************)
EXTENDS Integers, Sequences, FiniteSets, TLC

VARIABLES users, nextId, req, courses, nextCourse, files, nextFile

vars == <<users, nextId, req, courses, nextCourse, files, nextFile>>
\* The Course collection and the upload directory.
courseVars == <<courses, nextCourse, files, nextFile>>

\* ---------------------------------------------------------------- bounds
\* Request slots (requests that can be in flight at once).
NumReq == 2
\* Identity records ever created (ObjectIds are never reused).
MaxUsers == 2
\* Values crypto.randomBytes can return.
MaxTokens == 2
\* Readings of the wall clock (Date.now()).
MaxTime == 1

\* Course records ever created.
MaxCourses == 1
\* Files ever uploaded (each upload gets a fresh file name).
MaxFiles == 3

Reqs == 1..NumReq
Ids == 1..MaxUsers
\* An id no record ever has is a possible request parameter too.
TargetIds == 1..(MaxUsers + 1)

\* ---------------------------------------------------------------- values
Chars == {"a", "A", "b"}
Emails == {<<c>> : c \in Chars}
NoEmail == <<>>
\* Passwords of new accounts, and the passwords a login tries ("" is none).
Passwords == {"p"}
LoginPasswords == {"p", "q", ""}
Tokens == 1..MaxTokens
Clock == 0..MaxTime
RoleEnum == {"admin", "teacher", "student"}
\* role of a request body: a valid role, another string, or omitted ("").
RoleInputs == RoleEnum \cup {"guest", ""}
\* The other body fields (fullName, phone, the password's format) as a whole.
Fields == {"missing", "invalid", "valid"}

\* A field that is not set (undefined); tokens and timestamps are never 0.
Undefined == 0
\* Date.now() + 10 * 60 * 1000
ResetWindow == 10 * 60 * 1000

NoUser == [email |-> NoEmail, password |-> <<>>, role |-> "", isVerified |-> FALSE,
           resetPasswordToken |-> Undefined, resetPasswordExpire |-> Undefined,
           exists |-> FALSE]

\* String.prototype.toLowerCase, character by character.
LowerChar(c) ==
    CASE c = "A" -> "a"
      [] c = "B" -> "b"
      [] OTHER -> c

toLowerCase(s) == [i \in DOMAIN s |-> LowerChar(s[i])]

\* ---------------------------------------------------------------- responses
\* The status codes of the two rejection classes.
BadRequest == 400
Forbidden == 403
NoData == [id |-> 0, email |-> NoEmail, role |-> "", isVerified |-> FALSE, token |-> <<>>]
NoResp == [code |-> 0, status |-> "", message |-> "", data |-> NoData]

\* res.status(code).json({status, message})
Json(code, status, message) ==
    [code |-> code, status |-> status, message |-> message, data |-> NoData]

\* res.status(code).json({status, message, data})
JsonData(code, status, message, data) ==
    [code |-> code, status |-> status, message |-> message, data |-> data]

IdleReq == [op |-> "none", pc |-> "idle", email |-> NoEmail, password |-> "",
            role |-> "", fields |-> "valid", id |-> 0, caller |-> 0,
            user |-> 0, token |-> Undefined, mail |-> "none",
            callerRole |-> "", title |-> <<>>, contentType |-> "", file |-> 0,
            resp |-> NoResp]

\* The handler of request r sends its response and returns.
Respond(r, resp) == req' = [req EXCEPT ![r].pc = "done", ![r].resp = resp]

\* The same, after an await sendMail(...) that was delivered or threw.
RespondMail(r, mail, resp) ==
    req' = [req EXCEPT ![r].pc = "done", ![r].mail = mail, ![r].resp = resp]

\* The handler of request r reaches its next await.
Goto(r, pc) == req' = [req EXCEPT ![r].pc = pc]

\* ---------------------------------------------------------------- User model
\* bcrypt: a one-way hash of the password, compared by hashing the candidate.
Hash(p) == <<"bcrypt", p>>

comparePassword(user, candidate) == Hash(candidate) = user.password

\* User.findOne({ email }): the id of the record whose stored email is exactly
\* the given string, 0 (null) when there is none.
findOne(email) ==
    IF \E i \in Ids : users[i].exists /\ users[i].email = email
    THEN CHOOSE i \in Ids : users[i].exists /\ users[i].email = email
    ELSE 0

\* User.findById(id)
findById(id) == IF id \in Ids /\ users[id].exists THEN id ELSE 0

\* Faulty variant: a schema whose role has no enum.
Validates_NoEnum(role, fields) == fields = "valid"

\* The schema's validators: required fields, and the role enum.
Validates(role, fields) == fields = "valid" /\ role \in RoleEnum

\* The schema stores the email in lower case.
StoredEmail(email) == toLowerCase(email)

\* The unique index on email.
\* Faulty variant: the collection has no unique index on email.
DuplicateKey_NoIndex(email) == FALSE

DuplicateKey(email) == \E i \in Ids : users[i].exists /\ users[i].email = StoredEmail(email)

NewUser(email, password, role) ==
    [email |-> StoredEmail(email), password |-> Hash(password), role |-> role,
     isVerified |-> TRUE, resetPasswordToken |-> Undefined,
     resetPasswordExpire |-> Undefined, exists |-> TRUE]

\* The public view a handler builds from the document User.create returned.
UserView(id, email, role) ==
    [id |-> id, email |-> StoredEmail(email), role |-> role, isVerified |-> TRUE,
     token |-> <<>>]

\* ---------------------------------------------------------------- register
\* Faulty variant: another default role.
RegisterRole_Teacher(role) == IF role = "" THEN "teacher" ELSE role

\* role: role || 'student'
RegisterRole(role) == IF role = "" THEN "student" ELSE role

RegisterStart(r, email, password, role, fields) ==
    /\ req[r].pc = "idle"
    /\ req' = [req EXCEPT ![r] = [IdleReq EXCEPT !.op = "register", !.pc = "find",
                                    !.email = email, !.password = password,
                                    !.role = role, !.fields = fields]]
    /\ UNCHANGED <<users, nextId>>
    /\ UNCHANGED courseVars

RegisterFind(r) ==
    /\ req[r].op = "register" /\ req[r].pc = "find"
    /\ IF findOne(req[r].email) # 0
       THEN Respond(r, Json(400, "error", "User with this email already exists"))
       ELSE Goto(r, "create")
    /\ UNCHANGED <<users, nextId>>
    /\ UNCHANGED courseVars

RegisterCreate(r) ==
    /\ req[r].op = "register" /\ req[r].pc = "create"
    /\ LET role == RegisterRole(req[r].role) IN
       IF ~Validates(role, req[r].fields)
       THEN /\ Respond(r, Json(400, "error", "Validation failed"))
            /\ UNCHANGED <<users, nextId>>
       ELSE IF DuplicateKey(req[r].email)
       THEN /\ Respond(r, Json(500, "error", "Registration failed. Please try again."))
            /\ UNCHANGED <<users, nextId>>
       ELSE /\ nextId <= MaxUsers
            /\ users' = [users EXCEPT ![nextId] =
                            NewUser(req[r].email, req[r].password, role)]
            /\ nextId' = nextId + 1
            /\ req' = [req EXCEPT ![r].pc = "mail", ![r].user = nextId]
    /\ UNCHANGED courseVars

\* Faulty variant: a failed welcome email undoes the registration.
RegisterMail_Rollback(r) ==
    /\ req[r].op = "register" /\ req[r].pc = "mail"
    /\ \E delivered \in BOOLEAN :
         LET view == UserView(req[r].user, req[r].email, RegisterRole(req[r].role)) IN
         IF delivered
         THEN /\ RespondMail(r, "sent", JsonData(201, "success",
                    "Registration successful! Welcome to Smart App!", view))
              /\ UNCHANGED users
         ELSE /\ RespondMail(r, "failed", Json(500, "error",
                    "Registration failed. Please try again."))
              /\ users' = [users EXCEPT ![req[r].user] = NoUser]
    /\ UNCHANGED nextId
    /\ UNCHANGED courseVars

RegisterMail(r) ==
    /\ req[r].op = "register" /\ req[r].pc = "mail"
    /\ \E delivered \in BOOLEAN :
         LET view == UserView(req[r].user, req[r].email, RegisterRole(req[r].role)) IN
         IF delivered
         THEN RespondMail(r, "sent", JsonData(201, "success",
                  "Registration successful! Welcome to Smart App!", view))
         ELSE RespondMail(r, "failed", JsonData(201, "success",
                  "Registration successful! However, welcome email could not be sent.",
                  view))
    /\ UNCHANGED <<users, nextId>>
    /\ UNCHANGED courseVars


\* ---------------------------------------------------------------- login
\* jwt.sign({ id }, secret, { expiresIn })
generateToken(id) == <<"jwt", id>>

\* user.toJSON(): the document without its password.
LoginView(id) ==
    [id |-> id, email |-> users[id].email, role |-> users[id].role,
     isVerified |-> users[id].isVerified, token |-> generateToken(id)]

LoginStart(r, email, password) ==
    /\ req[r].pc = "idle"
    /\ IF email = NoEmail \/ password = ""
       THEN req' = [req EXCEPT ![r] = [IdleReq EXCEPT !.op = "login", !.pc = "done",
                       !.email = email, !.password = password,
                       !.resp = Json(400, "error", "Please provide email and password")]]
       ELSE req' = [req EXCEPT ![r] = [IdleReq EXCEPT !.op = "login", !.pc = "find",
                       !.email = email, !.password = password]]
    /\ UNCHANGED <<users, nextId>>
    /\ UNCHANGED courseVars

\* Faulty variant: an unknown email gets an answer of its own.
LoginFind_UserNotFound(r) ==
    /\ req[r].op = "login" /\ req[r].pc = "find"
    /\ LET user == findOne(req[r].email) IN
       IF user = 0
       THEN Respond(r, Json(404, "error", "User not found"))
       ELSE IF ~comparePassword(users[user], req[r].password)
       THEN req' = [req EXCEPT ![r].pc = "done", ![r].user = user,
                       ![r].resp = Json(401, "error", "Invalid email or password")]
       ELSE req' = [req EXCEPT ![r].pc = "done", ![r].user = user,
                       ![r].resp = JsonData(200, "success", "Login successful",
                           LoginView(user))]
    /\ UNCHANGED <<users, nextId>>
    /\ UNCHANGED courseVars

\* From the answer of User.findOne on, login reads only the document it got.
LoginFind(r) ==
    /\ req[r].op = "login" /\ req[r].pc = "find"
    /\ LET user == findOne(req[r].email) IN
       IF user = 0
       THEN Respond(r, Json(401, "error", "Invalid email or password"))
       ELSE IF ~comparePassword(users[user], req[r].password)
       THEN req' = [req EXCEPT ![r].pc = "done", ![r].user = user,
                       ![r].resp = Json(401, "error", "Invalid email or password")]
       ELSE IF ~users[user].isVerified
       THEN req' = [req EXCEPT ![r].pc = "done", ![r].user = user,
                       ![r].resp = Json(401, "error",
                           "Please verify your email before logging in")]
       ELSE req' = [req EXCEPT ![r].pc = "done", ![r].user = user,
                       ![r].resp = JsonData(200, "success", "Login successful",
                           LoginView(user))]
    /\ UNCHANGED <<users, nextId>>
    /\ UNCHANGED courseVars

\* ---------------------------------------------------------------- getMe
\* The session token is stateless: it verifies by signature and expiry alone, and
\* names the id it was issued to.  login issues one to any account from the
\* moment it is created and leaves no trace in the store, so every id ever
\* created may be the caller of a verified token.
Verified(caller) == caller \in Ids /\ caller < nextId

\* The document as it is serialised into the response.
MeView(id) ==
    [id |-> id, email |-> users[id].email, role |-> users[id].role,
     isVerified |-> users[id].isVerified, token |-> <<>>]

GetMeStart(r, caller) ==
    /\ req[r].pc = "idle"
    /\ Verified(caller)
    /\ req' = [req EXCEPT ![r] = [IdleReq EXCEPT !.op = "getMe", !.pc = "find",
                                    !.caller = caller]]
    /\ UNCHANGED <<users, nextId>>
    /\ UNCHANGED courseVars

\* const user = await User.findById(req.user.id); the answer carries user, a
\* document or null.
GetMeFind(r) ==
    /\ req[r].op = "getMe" /\ req[r].pc = "find"
    /\ LET user == findById(req[r].caller) IN
       IF user = 0
       THEN Respond(r, JsonData(200, "success", "", NoData))
       ELSE Respond(r, JsonData(200, "success", "", MeView(user)))
    /\ UNCHANGED <<users, nextId>>
    /\ UNCHANGED courseVars

\* ---------------------------------------------------------------- forgotPassword
GenericAck ==
    Json(200, "success",
         "If an account exists with this email, you will receive password reset instructions.")

ForgotStart(r, email) ==
    /\ req[r].pc = "idle"
    /\ req' = [req EXCEPT ![r] = [IdleReq EXCEPT !.op = "forgotPassword", !.pc = "find",
                                    !.email = email]]
    /\ UNCHANGED <<users, nextId>>
    /\ UNCHANGED courseVars

\* Faulty variant: an unknown email is answered 404.
ForgotFind_NotFound(r) ==
    /\ req[r].op = "forgotPassword" /\ req[r].pc = "find"
    /\ LET user == findOne(req[r].email) IN
       IF user = 0
       THEN Respond(r, Json(404, "error", "User not found"))
       ELSE \E resetToken \in Tokens :
              req' = [req EXCEPT ![r].pc = "save", ![r].user = user,
                         ![r].token = resetToken]
    /\ UNCHANGED <<users, nextId>>
    /\ UNCHANGED courseVars

\* findOne answers; crypto.randomBytes draws the token, set on the document in
\* memory.
ForgotFind(r) ==
    /\ req[r].op = "forgotPassword" /\ req[r].pc = "find"
    /\ LET user == findOne(req[r].email) IN
       IF user = 0
       THEN Respond(r, GenericAck)
       ELSE \E resetToken \in Tokens :
              req' = [req EXCEPT ![r].pc = "save", ![r].user = user,
                         ![r].token = resetToken]
    /\ UNCHANGED <<users, nextId>>
    /\ UNCHANGED courseVars

\* The expiry is Date.now() + 10 minutes, read as the save is issued; await
\* user.save() writes the two modified paths in one update, and throws when the
\* record was deleted since it was read.
ForgotSave(r) ==
    /\ req[r].op = "forgotPassword" /\ req[r].pc = "save"
    /\ IF users[req[r].user].exists
       THEN /\ \E t \in Clock :
                 users' = [users EXCEPT
                             ![req[r].user].resetPasswordToken = req[r].token,
                             ![req[r].user].resetPasswordExpire = t + ResetWindow]
            /\ Goto(r, "mail")
       ELSE /\ Respond(r, Json(500, "error",
                   "Password reset request failed. Please try again."))
            /\ UNCHANGED users
    /\ UNCHANGED nextId
    /\ UNCHANGED courseVars

ForgotMail(r) ==
    /\ req[r].op = "forgotPassword" /\ req[r].pc = "mail"
    /\ \E delivered \in BOOLEAN :
         IF delivered
         THEN RespondMail(r, "sent", GenericAck)
         ELSE req' = [req EXCEPT ![r].pc = "clear", ![r].mail = "failed"]
    /\ UNCHANGED <<users, nextId>>
    /\ UNCHANGED courseVars

\* Faulty variant: the catch answers without unsetting the fields.
ForgotClear_KeepsToken(r) ==
    /\ req[r].op = "forgotPassword" /\ req[r].pc = "clear"
    /\ Respond(r, Json(500, "error",
           "Failed to send password reset email. Please try again."))
    /\ UNCHANGED <<users, nextId>>
    /\ UNCHANGED courseVars

\* Faulty variant: the catch unsets the token and leaves its expiry.
ForgotClear_TokenOnly(r) ==
    /\ req[r].op = "forgotPassword" /\ req[r].pc = "clear"
    /\ IF users[req[r].user].exists
       THEN /\ users' = [users EXCEPT ![req[r].user].resetPasswordToken = Undefined]
            /\ Respond(r, Json(500, "error",
                   "Failed to send password reset email. Please try again."))
       ELSE /\ Respond(r, Json(500, "error",
                   "Password reset request failed. Please try again."))
            /\ UNCHANGED users
    /\ UNCHANGED nextId
    /\ UNCHANGED courseVars

\* The catch of the failed delivery: both fields are unset and saved.
ForgotClear(r) ==
    /\ req[r].op = "forgotPassword" /\ req[r].pc = "clear"
    /\ IF users[req[r].user].exists
       THEN /\ users' = [users EXCEPT ![req[r].user].resetPasswordToken = Undefined,
                                      ![req[r].user].resetPasswordExpire = Undefined]
            /\ Respond(r, Json(500, "error",
                   "Failed to send password reset email. Please try again."))
       ELSE /\ Respond(r, Json(500, "error",
                   "Password reset request failed. Please try again."))
            /\ UNCHANGED users
    /\ UNCHANGED nextId
    /\ UNCHANGED courseVars

\* ---------------------------------------------------------------- admin routes
\* The route's middleware: the bearer token names an existing administrator.
\* A handler reads req.user in its self-action guard only, so a request keeps
\* its caller when that guard, or the validation before it, has answered.
Authorized(caller) == caller \in Ids /\ users[caller].exists /\ users[caller].role = "admin"

\* ---------------------------------------------------------------- createTeacher
TeacherView(id, email) ==
    [id |-> id, email |-> StoredEmail(email), role |-> "teacher", isVerified |-> FALSE,
     token |-> <<>>]

CreateTeacherStart(r, caller, email, password, fields) ==
    /\ req[r].pc = "idle"
    /\ Authorized(caller)
    /\ IF fields = "missing" \/ email = NoEmail \/ password = ""
       THEN req' = [req EXCEPT ![r] = [IdleReq EXCEPT !.op = "createTeacher",
                       !.pc = "done", !.email = email,
                       !.resp = Json(400, "error", "Please provide all required fields")]]
       ELSE req' = [req EXCEPT ![r] = [IdleReq EXCEPT !.op = "createTeacher",
                       !.pc = "find", !.email = email, !.password = password,
                       !.fields = fields]]
    /\ UNCHANGED <<users, nextId>>
    /\ UNCHANGED courseVars

CreateTeacherFind(r) ==
    /\ req[r].op = "createTeacher" /\ req[r].pc = "find"
    /\ IF findOne(toLowerCase(req[r].email)) # 0
       THEN Respond(r, Json(400, "error", "User with this email already exists"))
       ELSE Goto(r, "create")
    /\ UNCHANGED <<users, nextId>>
    /\ UNCHANGED courseVars

\* A throw of User.create reaches the handler's catch: 500 with the error's message.
CreateTeacherCreate(r) ==
    /\ req[r].op = "createTeacher" /\ req[r].pc = "create"
    /\ IF ~Validates("teacher", req[r].fields)
       THEN /\ Respond(r, Json(500, "error", "User validation failed"))
            /\ UNCHANGED <<users, nextId>>
       ELSE IF DuplicateKey(toLowerCase(req[r].email))
       THEN /\ Respond(r, Json(500, "error", "E11000 duplicate key error"))
            /\ UNCHANGED <<users, nextId>>
       ELSE /\ nextId <= MaxUsers
            /\ users' = [users EXCEPT ![nextId] =
                            NewUser(toLowerCase(req[r].email), req[r].password, "teacher")]
            /\ nextId' = nextId + 1
            /\ req' = [req EXCEPT ![r].pc = "done", ![r].user = nextId,
                          ![r].resp = JsonData(201, "success",
                              "Teacher created successfully",
                              TeacherView(nextId, req[r].email))]
    /\ UNCHANGED courseVars

\* ---------------------------------------------------------------- deleteUser
DeleteUserStart(r, caller, id) ==
    /\ req[r].pc = "idle"
    /\ Authorized(caller)
    /\ IF id = caller
       THEN req' = [req EXCEPT ![r] = [IdleReq EXCEPT !.op = "deleteUser", !.pc = "done",
                       !.caller = caller, !.id = id,
                       !.resp = Json(400, "error", "You cannot delete your own account")]]
       ELSE req' = [req EXCEPT ![r] = [IdleReq EXCEPT !.op = "deleteUser", !.pc = "find",
                       !.id = id]]
    /\ UNCHANGED <<users, nextId>>
    /\ UNCHANGED courseVars

DeleteUserFind(r) ==
    /\ req[r].op = "deleteUser" /\ req[r].pc = "find"
    /\ IF findById(req[r].id) = 0
       THEN Respond(r, Json(404, "error", "User not found"))
       ELSE Goto(r, "delete")
    /\ UNCHANGED <<users, nextId>>
    /\ UNCHANGED courseVars

\* await User.findByIdAndDelete(id): no error when the record is gone already.
DeleteUserDelete(r) ==
    /\ req[r].op = "deleteUser" /\ req[r].pc = "delete"
    /\ users' = [users EXCEPT ![req[r].id] = NoUser]
    /\ Respond(r, Json(200, "success", "User deleted successfully"))
    /\ UNCHANGED nextId
    /\ UNCHANGED courseVars

\* ---------------------------------------------------------------- updateUserRole
RoleView(id, role) ==
    [id |-> id, email |-> users[id].email, role |-> role, isVerified |-> FALSE,
     token |-> <<>>]

\* Faulty variant: the self-action guard ahead of the validation of the role.
UpdateUserRoleStart_GuardFirst(r, caller, id, role) ==
    /\ req[r].pc = "idle"
    /\ Authorized(caller)
    /\ IF id = caller
       THEN req' = [req EXCEPT ![r] = [IdleReq EXCEPT !.op = "updateUserRole",
                       !.pc = "done", !.caller = caller, !.id = id, !.role = role,
                       !.resp = Json(400, "error", "You cannot change your own role")]]
       ELSE IF role \notin {"admin", "teacher", "student"}
       THEN req' = [req EXCEPT ![r] = [IdleReq EXCEPT !.op = "updateUserRole",
                       !.pc = "done", !.caller = caller, !.id = id, !.role = role,
                       !.resp = Json(400, "error",
                           "Invalid role. Must be admin, teacher, or student")]]
       ELSE req' = [req EXCEPT ![r] = [IdleReq EXCEPT !.op = "updateUserRole",
                       !.pc = "find", !.id = id, !.role = role]]
    /\ UNCHANGED <<users, nextId>>
    /\ UNCHANGED courseVars

UpdateUserRoleStart(r, caller, id, role) ==
    /\ req[r].pc = "idle"
    /\ Authorized(caller)
    /\ IF role \notin {"admin", "teacher", "student"}
       THEN req' = [req EXCEPT ![r] = [IdleReq EXCEPT !.op = "updateUserRole",
                       !.pc = "done", !.caller = caller, !.id = id, !.role = role,
                       !.resp = Json(400, "error",
                           "Invalid role. Must be admin, teacher, or student")]]
       ELSE IF id = caller
       THEN req' = [req EXCEPT ![r] = [IdleReq EXCEPT !.op = "updateUserRole",
                       !.pc = "done", !.caller = caller, !.id = id, !.role = role,
                       !.resp = Json(400, "error", "You cannot change your own role")]]
       ELSE req' = [req EXCEPT ![r] = [IdleReq EXCEPT !.op = "updateUserRole",
                       !.pc = "find", !.id = id, !.role = role]]
    /\ UNCHANGED <<users, nextId>>
    /\ UNCHANGED courseVars

UpdateUserRoleFind(r) ==
    /\ req[r].op = "updateUserRole" /\ req[r].pc = "find"
    /\ IF findById(req[r].id) = 0
       THEN Respond(r, Json(404, "error", "User not found"))
       ELSE Goto(r, "save")
    /\ UNCHANGED <<users, nextId>>
    /\ UNCHANGED courseVars

\* await user.save() validates and writes the one modified path, role; it throws
\* when the record was deleted since it was read.
UpdateUserRoleSave(r) ==
    /\ req[r].op = "updateUserRole" /\ req[r].pc = "save"
    /\ IF ~users[req[r].id].exists
       THEN /\ Respond(r, Json(500, "error", "No document found for query"))
            /\ UNCHANGED users
       ELSE IF ~Validates(req[r].role, "valid")
       THEN /\ Respond(r, Json(500, "error", "User validation failed"))
            /\ UNCHANGED users
       ELSE /\ users' = [users EXCEPT ![req[r].id].role = req[r].role]
            /\ Respond(r, JsonData(200, "success", "User role updated successfully",
                   RoleView(req[r].id, req[r].role)))
    /\ UNCHANGED nextId
    /\ UNCHANGED courseVars

\* ---------------------------------------------------------------- Course model
CourseIds == 1..MaxCourses
FileIds == 1..MaxFiles

\* contentType: enum ["video", "material", "homework"]
ContentTypes == {"video", "material", "homework"}
\* contentType of a request body: valid, another string, or omitted ("").
ContentTypeInputs == {"video", "pdf", ""}
\* title: minlength 3
MinTitleLen == 3
\* title of a request body: omitted, too short, long enough.  description and
\* subject are read, written and validated the way title is and stand behind it.
TitleInputs == {<<>>, <<"x", "y">>, <<"x", "y", "z">>}

\* contentUrl names the stored file; 0 is no file.
NoCourse == [title |-> <<>>, contentType |-> "", contentUrl |-> 0, createdBy |-> 0,
             exists |-> FALSE]

\* The schema validators run by Course.create and course.save.
CourseValidates(title, contentType) ==
    /\ Len(title) >= MinTitleLen
    /\ contentType \in ContentTypes

\* deleteFile(path): the file is gone afterwards, whether or not it was there.
deleteFile(fs, f) == fs \ {f}

\* The routes' middleware: protect resolves the token to the caller's record
\* (req.user), authorize lets administrators and teachers through.
CanManageContent(caller) ==
    /\ caller \in Ids
    /\ users[caller].exists
    /\ users[caller].role \in {"admin", "teacher"}

\* upload.single("file"): a file of the request is stored under a fresh name
\* before the handler runs; req.file is that file, or undefined (0).
Upload(hasFile, file) ==
    /\ hasFile => nextFile <= MaxFiles
    /\ file = IF hasFile THEN nextFile ELSE 0
    /\ files' = IF hasFile THEN files \cup {nextFile} ELSE files
    /\ nextFile' = IF hasFile THEN nextFile + 1 ELSE nextFile

\* req.user.role !== "admin" && course.createdBy.toString() !== req.user._id.toString()
NotCourseManager_RoleOnly(role, caller, course) ==
    role \notin {"admin", "teacher"}

NotCourseManager(role, caller, course) ==
    role # "admin" /\ course.createdBy # caller

\* ---------------------------------------------------------------- createCourse
CreateCourseStart(r, caller, title, contentType, hasFile) ==
    /\ req[r].pc = "idle"
    /\ CanManageContent(caller)
    /\ \E file \in FileIds \cup {0} :
         /\ Upload(hasFile, file)
         /\ LET started == [IdleReq EXCEPT !.op = "createCourse", !.pc = "create",
                                           !.caller = caller,
                                           !.callerRole = users[caller].role,
                                           !.title = title, !.contentType = contentType,
                                           !.file = file]
                answer(resp) == [started EXCEPT !.pc = "done", !.resp = resp]
            IN
            req' = [req EXCEPT ![r] =
                      IF title = <<>> \/ contentType = ""
                      THEN answer(Json(400, "error", "Please provide all required fields"))
                      ELSE IF contentType \notin ContentTypes
                      THEN answer(Json(400, "error",
                                       "Content type must be video, material, or homework"))
                      ELSE IF file = 0
                      THEN answer(Json(400, "error", "Please upload a file"))
                      ELSE started]
    /\ UNCHANGED <<users, nextId, courses, nextCourse>>

\* await Course.create({...}); a validation error is caught: the uploaded file
\* is deleted and the answer is 500.
CreateCourseCreate(r) ==
    /\ req[r].op = "createCourse" /\ req[r].pc = "create"
    /\ IF ~CourseValidates(req[r].title, req[r].contentType)
       THEN /\ files' = deleteFile(files, req[r].file)
            /\ Respond(r, Json(500, "error", "Course validation failed"))
            /\ UNCHANGED <<courses, nextCourse>>
       ELSE /\ nextCourse <= MaxCourses
            /\ courses' = [courses EXCEPT ![nextCourse] =
                             [title |-> req[r].title, contentType |-> req[r].contentType,
                              contentUrl |-> req[r].file, createdBy |-> req[r].caller,
                              exists |-> TRUE]]
            /\ nextCourse' = nextCourse + 1
            /\ req' = [req EXCEPT ![r].pc = "populate", ![r].id = nextCourse]
            /\ UNCHANGED files
    /\ UNCHANGED <<users, nextId, nextFile>>

\* await course.populate(...), then the 201.
CreateCoursePopulate(r) ==
    /\ req[r].op = "createCourse" /\ req[r].pc = "populate"
    /\ Respond(r, Json(201, "success", "Course created successfully"))
    /\ UNCHANGED <<users, nextId, courseVars>>

\* ---------------------------------------------------------------- updateCourse
UpdateCourseStart(r, caller, id, title, contentType, hasFile) ==
    /\ req[r].pc = "idle"
    /\ CanManageContent(caller)
    /\ \E file \in FileIds \cup {0} :
         /\ Upload(hasFile, file)
         /\ req' = [req EXCEPT ![r] =
                      [IdleReq EXCEPT !.op = "updateCourse", !.pc = "find",
                                      !.caller = caller, !.callerRole = users[caller].role,
                                      !.id = id, !.title = title,
                                      !.contentType = contentType, !.file = file]]
    /\ UNCHANGED <<users, nextId, courses, nextCourse>>

\* Course.findById resolves: 404, 403, or the document is changed in memory,
\* the old file is deleted when a new one came, and course.save() is issued.
UpdateCourseFind(r) ==
    /\ req[r].op = "updateCourse" /\ req[r].pc = "find"
    /\ LET course == courses[req[r].id] IN
       IF ~course.exists
       THEN /\ Respond(r, Json(404, "error", "Course not found"))
            /\ UNCHANGED files
       ELSE IF NotCourseManager(req[r].callerRole, req[r].caller, course)
       THEN /\ Respond(r, Json(Forbidden, "error", "Not authorized to update this course"))
            /\ UNCHANGED files
       ELSE /\ files' = IF req[r].file # 0 THEN deleteFile(files, course.contentUrl)
                        ELSE files
            /\ Goto(r, "save")
    /\ UNCHANGED <<users, nextId, courses, nextCourse, nextFile>>

\* await course.save(): the paths set in memory are validated and written.  A
\* validation error, or a document deleted meanwhile, is caught: the uploaded
\* file is deleted and the answer is 500.
UpdateCourseSave(r) ==
    /\ req[r].op = "updateCourse" /\ req[r].pc = "save"
    /\ LET course == courses[req[r].id]
           title == IF req[r].title # <<>> THEN req[r].title ELSE course.title
           contentType == IF req[r].contentType # "" THEN req[r].contentType
                          ELSE course.contentType
           contentUrl == IF req[r].file # 0 THEN req[r].file ELSE course.contentUrl
       IN
       IF ~course.exists \/ ~CourseValidates(title, contentType)
       THEN /\ files' = IF req[r].file # 0 THEN deleteFile(files, req[r].file) ELSE files
            /\ Respond(r, Json(500, "error", "Error updating course"))
            /\ UNCHANGED courses
       ELSE /\ courses' = [courses EXCEPT ![req[r].id].title = title,
                                          ![req[r].id].contentType = contentType,
                                          ![req[r].id].contentUrl = contentUrl]
            /\ Goto(r, "populate")
            /\ UNCHANGED files
    /\ UNCHANGED <<users, nextId, nextCourse, nextFile>>

\* await course.populate(...), then the 200.
UpdateCoursePopulate(r) ==
    /\ req[r].op = "updateCourse" /\ req[r].pc = "populate"
    /\ Respond(r, Json(200, "success", "Course updated successfully"))
    /\ UNCHANGED <<users, nextId, courseVars>>

\* ---------------------------------------------------------------- deleteCourse
DeleteCourseStart(r, caller, id) ==
    /\ req[r].pc = "idle"
    /\ CanManageContent(caller)
    /\ req' = [req EXCEPT ![r] =
                 [IdleReq EXCEPT !.op = "deleteCourse", !.pc = "find", !.caller = caller,
                                 !.callerRole = users[caller].role, !.id = id]]
    /\ UNCHANGED <<users, nextId, courseVars>>

\* Course.findById resolves: 404, 403, or the stored file is deleted and
\* Course.findByIdAndDelete is issued.
DeleteCourseFind(r) ==
    /\ req[r].op = "deleteCourse" /\ req[r].pc = "find"
    /\ LET course == courses[req[r].id] IN
       IF ~course.exists
       THEN /\ Respond(r, Json(404, "error", "Course not found"))
            /\ UNCHANGED files
       ELSE IF NotCourseManager(req[r].callerRole, req[r].caller, course)
       THEN /\ Respond(r, Json(Forbidden, "error", "Not authorized to delete this course"))
            /\ UNCHANGED files
       ELSE /\ files' = deleteFile(files, course.contentUrl)
            /\ Goto(r, "delete")
    /\ UNCHANGED <<users, nextId, courses, nextCourse, nextFile>>

\* await Course.findByIdAndDelete(id), then the 200.
DeleteCourseDelete(r) ==
    /\ req[r].op = "deleteCourse" /\ req[r].pc = "delete"
    /\ courses' = [courses EXCEPT ![req[r].id] = NoCourse]
    /\ Respond(r, Json(200, "success", "Course deleted successfully"))
    /\ UNCHANGED <<users, nextId, nextCourse, files, nextFile>>

\* ---------------------------------------------------------------- scheduling
\* The client has its response; the slot serves the next request.
Release(r) ==
    /\ req[r].pc = "done"
    /\ req' = [req EXCEPT ![r] = IdleReq]
    /\ UNCHANGED <<users, nextId>>
    /\ UNCHANGED courseVars

\* No request is being served.
Quiescent == \A s \in Reqs : req[s].pc = "idle"

\* One request at a time: the next one starts when the last one is answered.
Sequential(r) == Quiescent /\ r = 1

Init ==
    /\ users = [i \in Ids |-> NoUser]
    /\ nextId = 1
    /\ req = [r \in Reqs |-> IdleReq]
    /\ courses = [c \in CourseIds |-> NoCourse]
    /\ nextCourse = 1
    /\ files = {}
    /\ nextFile = 1

Next ==
    \/ \E r \in Reqs, e \in Emails, p \in Passwords, ro \in RoleInputs, f \in Fields :
         Sequential(r) /\ RegisterStart(r, e, p, ro, f)
    \/ \E r \in Reqs : RegisterFind(r)
    \/ \E r \in Reqs : RegisterCreate(r)
    \/ \E r \in Reqs : RegisterMail(r)
    \/ \E r \in Reqs, e \in Emails \cup {NoEmail}, p \in LoginPasswords :
         Sequential(r) /\ LoginStart(r, e, p)
    \/ \E r \in Reqs : LoginFind(r)
    \/ \E r \in Reqs, c \in Ids : Sequential(r) /\ GetMeStart(r, c)
    \/ \E r \in Reqs : GetMeFind(r)
    \/ \E r \in Reqs, e \in Emails : Sequential(r) /\ ForgotStart(r, e)
    \/ \E r \in Reqs : ForgotFind(r)
    \/ \E r \in Reqs : ForgotSave(r)
    \/ \E r \in Reqs : ForgotMail(r)
    \/ \E r \in Reqs : ForgotClear(r)
    \/ \E r \in Reqs, c \in Ids, e \in Emails \cup {NoEmail}, p \in Passwords \cup {""},
          f \in Fields :
         Sequential(r) /\ CreateTeacherStart(r, c, e, p, f)
    \/ \E r \in Reqs : CreateTeacherFind(r)
    \/ \E r \in Reqs : CreateTeacherCreate(r)
    \/ \E r \in Reqs, c \in Ids, i \in TargetIds : Sequential(r) /\ DeleteUserStart(r, c, i)
    \/ \E r \in Reqs : DeleteUserFind(r)
    \/ \E r \in Reqs : DeleteUserDelete(r)
    \/ \E r \in Reqs, c \in Ids, i \in TargetIds, ro \in RoleInputs :
         Sequential(r) /\ UpdateUserRoleStart(r, c, i, ro)
    \/ \E r \in Reqs : UpdateUserRoleFind(r)
    \/ \E r \in Reqs : UpdateUserRoleSave(r)
    \/ \E r \in Reqs : Release(r)

Spec == Init /\ [][Next]_vars

\* Requests of different clients overlap: a request starts in any free slot.
\* The overlapping requests carry valid bodies, drawn from these sets.
ConcEmails == {<<"a">>, <<"A">>, <<"b">>}
ConcRoles == {"admin", ""}

NextConc ==
    \/ \E r \in Reqs, e \in ConcEmails, p \in Passwords, ro \in ConcRoles :
         RegisterStart(r, e, p, ro, "valid")
    \/ \E r \in Reqs : RegisterFind(r)
    \/ \E r \in Reqs : RegisterCreate(r)
    \/ \E r \in Reqs : RegisterMail(r)
    \/ \E r \in Reqs, e \in ConcEmails : ForgotStart(r, e)
    \/ \E r \in Reqs : ForgotFind(r)
    \/ \E r \in Reqs : ForgotSave(r)
    \/ \E r \in Reqs : ForgotMail(r)
    \/ \E r \in Reqs : ForgotClear(r)
    \/ \E r \in Reqs, c \in Ids, e \in ConcEmails, p \in Passwords :
         CreateTeacherStart(r, c, e, p, "valid")
    \/ \E r \in Reqs : CreateTeacherFind(r)
    \/ \E r \in Reqs : CreateTeacherCreate(r)
    \/ \E r \in Reqs, c \in Ids, i \in Ids : DeleteUserStart(r, c, i)
    \/ \E r \in Reqs : DeleteUserFind(r)
    \/ \E r \in Reqs : DeleteUserDelete(r)
    \/ \E r \in Reqs, c \in Ids, i \in Ids, ro \in ConcRoles \ {""} :
         UpdateUserRoleStart(r, c, i, ro)
    \/ \E r \in Reqs : UpdateUserRoleFind(r)
    \/ \E r \in Reqs : UpdateUserRoleSave(r)
    \/ \E r \in Reqs : Release(r)

SpecConc == Init /\ [][NextConc]_vars

\* The course controller, one request at a time, with the accounts that call
\* it: administrators and teachers registered with these bodies.
CourseEmails == {<<"a">>, <<"b">>}
CourseRoles == {"admin", "teacher"}

NextCourse ==
    \/ \E r \in Reqs, e \in CourseEmails, p \in Passwords, ro \in CourseRoles :
         Sequential(r) /\ RegisterStart(r, e, p, ro, "valid")
    \/ \E r \in Reqs : RegisterFind(r)
    \/ \E r \in Reqs : RegisterCreate(r)
    \/ \E r \in Reqs : RegisterMail(r)
    \/ \E r \in Reqs, c \in Ids, t \in TitleInputs, ct \in ContentTypeInputs,
          f \in BOOLEAN :
         Sequential(r) /\ CreateCourseStart(r, c, t, ct, f)
    \/ \E r \in Reqs : CreateCourseCreate(r)
    \/ \E r \in Reqs : CreateCoursePopulate(r)
    \/ \E r \in Reqs, c \in Ids, i \in CourseIds, t \in TitleInputs,
          ct \in ContentTypeInputs, f \in BOOLEAN :
         Sequential(r) /\ UpdateCourseStart(r, c, i, t, ct, f)
    \/ \E r \in Reqs : UpdateCourseFind(r)
    \/ \E r \in Reqs : UpdateCourseSave(r)
    \/ \E r \in Reqs : UpdateCoursePopulate(r)
    \/ \E r \in Reqs, c \in Ids, i \in CourseIds : Sequential(r) /\ DeleteCourseStart(r, c, i)
    \/ \E r \in Reqs : DeleteCourseFind(r)
    \/ \E r \in Reqs : DeleteCourseDelete(r)
    \/ \E r \in Reqs : Release(r)

SpecCourse == Init /\ [][NextCourse]_vars

\* The two handlers that create accounts, their requests overlapping.
NextRace ==
    \/ \E r \in Reqs, e \in ConcEmails, p \in Passwords, ro \in ConcRoles :
         RegisterStart(r, e, p, ro, "valid")
    \/ \E r \in Reqs : RegisterFind(r)
    \/ \E r \in Reqs : RegisterCreate(r)
    \/ \E r \in Reqs : RegisterMail(r)
    \/ \E r \in Reqs, c \in Ids, e \in ConcEmails, p \in Passwords :
         CreateTeacherStart(r, c, e, p, "valid")
    \/ \E r \in Reqs : CreateTeacherFind(r)
    \/ \E r \in Reqs : CreateTeacherCreate(r)
    \/ \E r \in Reqs : Release(r)

SpecRace == Init /\ [][NextRace]_vars

\* forgotPassword requests overlapping, for the accounts register has created.
\* A request arrives before any forgotPassword still held in a slot was
\* answered, so the forgotPassword requests held together ran side by side.
Overlapping == \A s \in Reqs : ~(req[s].op = "forgotPassword" /\ req[s].pc = "done")

NextReset ==
    \/ \E r \in Reqs, e \in ConcEmails, p \in Passwords, ro \in ConcRoles :
         Sequential(r) /\ RegisterStart(r, e, p, ro, "valid")
    \/ \E r \in Reqs : RegisterFind(r)
    \/ \E r \in Reqs : RegisterCreate(r)
    \/ \E r \in Reqs : RegisterMail(r)
    \/ \E r \in Reqs, e \in ConcEmails : Overlapping /\ ForgotStart(r, e)
    \/ \E r \in Reqs : ForgotFind(r)
    \/ \E r \in Reqs : ForgotSave(r)
    \/ \E r \in Reqs : ForgotMail(r)
    \/ \E r \in Reqs : ForgotClear(r)
    \/ \E r \in Reqs : Release(r)

SpecReset == Init /\ [][NextReset]_vars

\* ---------------------------------------------------------------- properties

Done(r, op) == req[r].pc = "done" /\ req[r].op = op

InvalidRoleResp == Json(400, "error", "Invalid role. Must be admin, teacher, or student")

\* An administrator's deleteUser or updateUserRole (valid role) on their own id.
SelfAction(r) ==
    /\ req[r].id = req[r].caller
    /\ \/ Done(r, "deleteUser")
       \/ Done(r, "updateUserRole") /\ req[r].role \in RoleEnum

\* C1: an administrator's deleteUser or updateUserRole (with a valid role) on
\* their own id is rejected as Forbidden, a class other than the BadRequest of an
\* invalid role value, and the caller's record is neither deleted nor changed in
\* role.
C1_SelfActionForbidden ==
    \A r \in Reqs :
      SelfAction(r) =>
        /\ req[r].resp.status = "error"
        /\ req[r].resp.code = Forbidden
        /\ req[r].resp.code # InvalidRoleResp.code
        /\ users[req[r].caller].exists
        /\ users[req[r].caller].role = "admin"

\* C2: updateUserRole with a role outside {admin, teacher, student} answers with
\* the invalid-role error in its first step, whatever the target id is (the
\* caller's own, another record's, no record's): it never reaches the self-action
\* guard or the lookup, and no identity record changes.
C2_InvalidRoleFirst ==
    [][\A r \in Reqs :
         (/\ req'[r] # req[r]
          /\ req'[r].op = "updateUserRole"
          /\ req'[r].role \notin RoleEnum)
         => /\ req'[r].pc = "done"
            /\ req'[r].resp = InvalidRoleResp
            /\ req'[r].resp.code = BadRequest
            /\ users' = users]_vars

\* An invalid role sent with the caller's own id has been answered.
C2_Witness ==
    \E r \in Reqs :
      /\ Done(r, "updateUserRole")
      /\ req[r].role \notin RoleEnum
      /\ req[r].id = req[r].caller
      /\ req[r].resp = InvalidRoleResp

DuplicateResp == Json(400, "error", "User with this email already exists")

\* The body of a register or createTeacher request passes every other check.
ValidBody(r) ==
    /\ req[r].fields = "valid"
    /\ req[r].email # NoEmail
    /\ req[r].password # ""
    /\ req[r].op = "register" => RegisterRole(req[r].role) \in RoleEnum

\* C3: a register or createTeacher whose email equals, letter case aside, the
\* email of a record that is there already is answered with the duplicate-email
\* error, and no two records have emails that are equal letter case aside.
C3_DuplicateEmailRejected ==
    /\ \A r \in Reqs :
         (/\ Done(r, "register") \/ Done(r, "createTeacher")
          /\ ValidBody(r)
          /\ req[r].user = 0
          /\ \E i \in Ids : /\ users[i].exists
                            /\ toLowerCase(users[i].email) = toLowerCase(req[r].email))
         => req[r].resp = DuplicateResp
    /\ \A i, j \in Ids :
         (/\ i # j
          /\ users[i].exists
          /\ users[j].exists)
         => toLowerCase(users[i].email) # toLowerCase(users[j].email)

\* C4 as stated: every forgotPassword, for an email with or without an account,
\* is answered 200 with the one generic body.
C4_AlwaysGenericAck ==
    \A r \in Reqs : Done(r, "forgotPassword") => req[r].resp = GenericAck

\* C4 as amended: forgotPassword for an email without an account, and for an
\* account whose reset email is delivered, are answered 200 with the one generic
\* body; a failed delivery for an existing account is answered 500.
C4_GenericAckUnlessDeliveryFails ==
    \A r \in Reqs :
      Done(r, "forgotPassword") =>
        /\ (req[r].user = 0 \/ req[r].mail = "sent") =>
              /\ req[r].resp = GenericAck
              /\ req[r].resp.code = 200
        /\ req[r].mail = "failed" => req[r].resp.code = 500

\* The reset email of an existing account was delivered and acknowledged.
C4_Witness ==
    \E r \in Reqs :
      /\ Done(r, "forgotPassword")
      /\ req[r].user # 0
      /\ req[r].mail = "sent"
      /\ req[r].resp = GenericAck

\* C5: when the delivery of a forgotPassword for an existing account fails, the
\* request is answered with an error of status 500, not the acknowledgement, and
\* by then the record holds neither the reset token nor its expiry.
C5_FailedDeliveryClearsToken ==
    \A r \in Reqs :
      (Done(r, "forgotPassword") /\ req[r].mail = "failed") =>
        /\ req[r].resp.code = 500
        /\ req[r].resp.status = "error"
        /\ req[r].resp # GenericAck
        /\ users[req[r].user].exists
        /\ users[req[r].user].resetPasswordToken = Undefined
        /\ users[req[r].user].resetPasswordExpire = Undefined

\* A token was generated and saved, its delivery failed, the request is answered.
C5_Witness ==
    \E r \in Reqs :
      /\ Done(r, "forgotPassword")
      /\ req[r].mail = "failed"
      /\ req[r].token # Undefined
      /\ req[r].resp.code = 500

\* C6: in every record, after any interleaving of the steps of register,
\* createTeacher, forgotPassword, updateUserRole and deleteUser, the reset token
\* and its expiry are both set or both absent.
C6_TokenAndExpiryTogether ==
    \A i \in Ids :
      (users[i].resetPasswordToken = Undefined) <=> (users[i].resetPasswordExpire = Undefined)

\* A record holds a token and its expiry while a forgotPassword is about to
\* unset them and an updateUserRole is about to save the same record.
C6_Witness ==
    \E i \in Ids, r, s \in Reqs :
      /\ users[i].exists
      /\ users[i].resetPasswordToken # Undefined
      /\ users[i].resetPasswordExpire # Undefined
      /\ req[r].op = "forgotPassword" /\ req[r].pc = "clear" /\ req[r].user = i
      /\ req[s].op = "updateUserRole" /\ req[s].pc = "save" /\ req[s].id = i

\* C7: when register has created the record and the welcome email fails, the
\* record stays in the store and the answer is 201, status success, with the
\* record's public view and a message other than the one of a delivered email.
C7_CreateSurvivesMailFailure ==
    \A r \in Reqs :
      (Done(r, "register") /\ req[r].mail = "failed") =>
        /\ users[req[r].user].exists
        /\ req[r].resp.code = 201
        /\ req[r].resp.status = "success"
        /\ req[r].resp.message # "Registration successful! Welcome to Smart App!"
        /\ req[r].resp.data.id = req[r].user
        /\ req[r].resp.data.email = users[req[r].user].email
        /\ req[r].resp.data.role = users[req[r].user].role
        /\ req[r].resp.data.isVerified = users[req[r].user].isVerified

C7_Witness ==
    \E r \in Reqs :
      /\ Done(r, "register")
      /\ req[r].mail = "failed"
      /\ req[r].resp.code = 201

InvalidCredentials == Json(401, "error", "Invalid email or password")

\* C8: a login with an email no record has, and a login with a record's email
\* and another password, get the same answer, 401 with the same message, and no
\* session token.
C8_UniformInvalidCredentials ==
    \A r \in Reqs :
      (/\ Done(r, "login")
       /\ req[r].email # NoEmail
       /\ req[r].password # ""
       /\ \/ findOne(req[r].email) = 0
          \/ ~comparePassword(users[findOne(req[r].email)], req[r].password))
      => /\ req[r].resp = InvalidCredentials
         /\ req[r].resp.data.token = <<>>

\* A record's email with a wrong password has been answered.
C8_Witness ==
    \E r \in Reqs :
      /\ Done(r, "login")
      /\ findOne(req[r].email) # 0
      /\ ~comparePassword(users[findOne(req[r].email)], req[r].password)
      /\ req[r].resp = InvalidCredentials

\* C9: the record a successful register creates is verified, and its role is
\* student when the request named no role.
C9_RegisterDefaults ==
    \A r \in Reqs :
      (/\ req[r].op = "register"
       /\ req[r].user # 0)
      => /\ users[req[r].user].exists
         /\ users[req[r].user].isVerified
         /\ req[r].role = "" => users[req[r].user].role = "student"
         /\ req[r].pc = "done" =>
              /\ req[r].resp.code = 201
              /\ req[r].resp.data.isVerified
              /\ req[r].role = "" => req[r].resp.data.role = "student"

\* A register without a role has created its record and is answered.
C9_Witness ==
    \E r \in Reqs :
      /\ Done(r, "register")
      /\ req[r].role = ""
      /\ req[r].resp.code = 201
      /\ users[req[r].user].role = "student"

\* C10: every identity record's role is one of admin, teacher, student.
C10_RoleInEnum ==
    \A i \in Ids : users[i].exists => users[i].role \in {"admin", "teacher", "student"}

\* A register that named a role outside the enum has been answered, and records
\* created by register and by createTeacher are in the store.
C10_Witness ==
    /\ \E r \in Reqs : Done(r, "register") /\ req[r].role = "guest"
    /\ \E i \in Ids : users[i].exists /\ users[i].role = "teacher"
    /\ \E i \in Ids : users[i].exists /\ users[i].role = "admin"

\* C11: getMe with a verified caller id that no record has (the account was
\* deleted after the token was issued) fails with NotFound, not with a success.
C11_GetMeNotFound ==
    \A r \in Reqs :
      (Done(r, "getMe") /\ findById(req[r].caller) = 0) =>
        /\ req[r].resp.code = 404
        /\ req[r].resp.status = "error"

\* updateCourse and deleteCourse requests.
CourseChange(r) == req[r].op \in {"updateCourse", "deleteCourse"}

\* C12: updateCourse and deleteCourse on an existing course succeed only for
\* an administrator or the course's creator; any other caller is answered 403
\* and neither the course record nor a stored file changes.
C12_OnlyAdminOrCreator ==
    [][\A r \in Reqs :
         LET course == courses[req[r].id] IN
         /\ (/\ CourseChange(r) /\ req[r].pc = "find" /\ req'[r] # req[r]
             /\ course.exists
             /\ req[r].callerRole # "admin" /\ course.createdBy # req[r].caller)
            => /\ req'[r].pc = "done"
               /\ req'[r].resp.code = Forbidden
               /\ courses' = courses
               /\ files' = files
         /\ (/\ CourseChange(r) /\ req[r].pc # "done" /\ req'[r].pc = "done"
             /\ req'[r].resp.code = 200)
            => /\ course.exists
               /\ req[r].callerRole = "admin" \/ course.createdBy = req[r].caller]_vars

\* A teacher who uploaded a replacement file for another teacher's course has
\* been answered 403, and the course still has its file.
C12_Witness ==
    \E r \in Reqs :
      /\ Done(r, "updateCourse")
      /\ req[r].resp.code = Forbidden
      /\ req[r].callerRole = "teacher"
      /\ req[r].file # 0
      /\ courses[req[r].id].exists
      /\ courses[req[r].id].createdBy # req[r].caller
      /\ courses[req[r].id].contentUrl \in files

\* register and createTeacher requests.
Creates(r) == req[r].op \in {"register", "createTeacher"}

\* C13: however register and createTeacher requests for one email interleave,
\* at most one record with that email is created, by at most one of the
\* requests, and every request that created none is answered with an error.
C13_OneRecordPerEmail ==
    /\ \A i, j \in Ids :
         (i # j /\ users[i].exists /\ users[j].exists) =>
           toLowerCase(users[i].email) # toLowerCase(users[j].email)
    /\ \A r, s \in Reqs :
         (/\ r # s /\ Creates(r) /\ Creates(s)
          /\ toLowerCase(req[r].email) = toLowerCase(req[s].email))
         => ~(req[r].user # 0 /\ req[s].user # 0)
    /\ \A r \in Reqs :
         (Creates(r) /\ req[r].pc = "done" /\ req[r].user = 0) =>
           /\ req[r].resp.status = "error"
           /\ req[r].resp.code \in {400, 500}

\* Two requests for one email both found no record; one has created it and the
\* other was refused by the store.
C13_Witness ==
    \E r, s \in Reqs :
      /\ r # s /\ Creates(r) /\ Creates(s)
      /\ req[r].email = req[s].email
      /\ req[r].user # 0
      /\ req[s].pc = "done" /\ req[s].user = 0
      /\ req[s].resp.code = 500

\* Request r is a forgotPassword for account i that was answered with the 200
\* acknowledgement after its email was delivered.
Acknowledged(r, i) ==
    /\ Done(r, "forgotPassword")
    /\ req[r].user = i
    /\ req[r].mail = "sent"
    /\ req[r].resp = GenericAck

\* C14: once all overlapping forgotPassword requests for an account have
\* completed, if one of them was acknowledged after its email was delivered,
\* the record holds a reset token and an expiry, and the token is the one an
\* acknowledged request emailed; a failed delivery of another request has not
\* cleared it.
C14_DeliveredTokenStands ==
    \A i \in Ids :
      (/\ \A r \in Reqs : req[r].op = "forgotPassword" => req[r].pc = "done"
       /\ \E r \in Reqs : Acknowledged(r, i))
      => /\ users[i].resetPasswordToken # Undefined
         /\ users[i].resetPasswordExpire # Undefined
         /\ \E s \in Reqs :
              Acknowledged(s, i) /\ req[s].token = users[i].resetPasswordToken

====
